---- MODULE Spec2Model ----
(***************************************************************************)
(* A model of the InputMask component                                      *)
(* (src/core/components/molecules/inputMask/InputMask.tsx).                *)
(*                                                                         *)
(* A string is a sequence of one-character strings: "(5" is <<"(", "5">>.  *)
(* A mask token is either a string token [type |-> "string", str |-> s]    *)
(* or a RegExp token [type |-> "object", re |-> r] (typeof m === 'object').*)
(***************************************************************************)
EXTENDS Integers, Sequences, FiniteSets, TLC

(* Bounds of the model. *)
MaxMaskLen == 3
MaxValLen == 3

VARIABLES
  mask,            \* props.mask
  placeholderChar, \* props.placeholderChar
  validators,      \* props.validators
  defaultValue,    \* props.defaultValue
  valueProp,       \* props.value as of the last render
  value,           \* useState: the live value
  caret,           \* useState: the stored caret
  selectionStart,  \* ref.current.selectionStart
  selectionEnd,    \* ref.current.selectionEnd
  event,           \* the event handled last and what its handler computed
  notified,        \* the caller's callbacks invoked by the handler that ran last
  pc,              \* position of the mask-pass harness
  val,             \* the text handed to convertToMasked by the harness
  rawVal,          \* what getRawValue returned for val
  newVal,          \* what convertToMasked returned for val
  reVal,           \* what convertToMasked returned for newVal
  newCaret,        \* what convertToMasked handed to setCaret for val
  cutVal,          \* what convertToMasked returned for the raw value cut
                   \* to as many characters as the mask has RegExp tokens
  bar              \* the ProgressBar: its props and the width it rendered

vars == <<mask, placeholderChar, validators, defaultValue, valueProp, value,
          caret, selectionStart, selectionEnd, event, notified, pc, val,
          rawVal, newVal, reVal, newCaret, cutVal, bar>>

widgetVars == <<mask, placeholderChar, validators, defaultValue, valueProp,
                value, caret, selectionStart, selectionEnd, event, notified>>

----------------------------------------------------------------------------
(* Characters, strings and mask tokens. *)

Digits == {"0", "1", "2", "3", "4", "5", "6", "7", "8", "9"}

\* String.prototype.match of a one-character string against a RegExp token:
\* /\d/ accepts the digits, /./ accepts every character.
match(c, m) ==
  CASE m.re = "\\d" -> c \in Digits
    [] m.re = "."   -> TRUE
    [] OTHER        -> FALSE

Literal(c) == [type |-> "string", str |-> <<c>>]
Pattern(r) == [type |-> "object", re |-> r]
d == Pattern("\\d")

\* All strings over the characters cs of at most n characters.
RECURSIVE StringsUpTo(_, _)
StringsUpTo(cs, n) ==
  IF n = 0 THEN {<<>>}
  ELSE LET shorter == StringsUpTo(cs, n - 1)
       IN  shorter \cup {Append(s, c) : s \in shorter, c \in cs}

\* All masks over the given tokens of at most n tokens.
RECURSIVE MasksOver(_, _)
MasksOver(tokens, n) ==
  IF n = 0 THEN {<<>>}
  ELSE LET shorter == MasksOver(tokens, n - 1)
       IN  shorter \cup {Append(s, t) : s \in shorter, t \in tokens}

----------------------------------------------------------------------------
(* The mask pipeline. *)

\* const fixedMask = mask.filter(m => typeof m === 'string' && m.length === 1)
fixedMask ==
  SelectSeq(mask, LAMBDA m : m.type = "string" /\ Len(m.str) = 1)

\* Array.prototype.includes on fixedMask, for a one-character string v
includes(arr, v) == \E k \in 1..Len(arr) : arr[k].str = <<v>>

\* getRawValue: the characters of s that are neither in fixedMask nor the
\* placeholder, in order.
getRawValueKeepsPlaceholder(s) ==
  SelectSeq(s, LAMBDA v : ~includes(fixedMask, v))

getRawValueKeepsLiterals(s) ==
  SelectSeq(s, LAMBDA v : ~(v = placeholderChar))

getRawValue(s) ==
  SelectSeq(s, LAMBDA v : ~(includes(fixedMask, v) \/ v = placeholderChar))

\* The character a RegExp token m appends to newVal:
\*   if (it < rawValue.length && rawValue[it].match(m)) newVal += rawValue[it];
\*   else newVal += placeholderChar;
slotCharNoTest(rawValue, it, m) ==
  IF it < Len(rawValue) THEN rawValue[it + 1] ELSE placeholderChar

slotCharOverflowBlank(rawValue, it, m) ==
  IF /\ Len(rawValue) <= Cardinality({i \in 1..Len(mask) : mask[i].type = "object"})
     /\ it < Len(rawValue) /\ match(rawValue[it + 1], m)
  THEN rawValue[it + 1]
  ELSE placeholderChar

slotChar(rawValue, it, m) ==
  IF it < Len(rawValue) /\ match(rawValue[it + 1], m)
  THEN rawValue[it + 1]
  ELSE placeholderChar

\* it++ after a RegExp token, whether or not the character matched
itOnlyOnMatch(rawValue, it, m) ==
  IF it < Len(rawValue) /\ ~match(rawValue[it + 1], m) THEN it ELSE it + 1

itNotAdvanced(rawValue, it, m) == it

itAfterPattern(rawValue, it, m) == it + 1

\* newCaretPos after the string token at index i:
\*   if (i >= caret && i <= newCaretPos && it < rawValue.length) {
\*     if (rawValue.length > oldRawValue.length) newCaretPos++;
\*   }
caretIgnoresGrowth(i, st, rawValue, oldRawValue) ==
  IF i >= caret /\ i <= st.newCaretPos /\ st.it < Len(rawValue)
  THEN st.newCaretPos + 1
  ELSE st.newCaretPos

caretAfterLiteral(i, st, rawValue, oldRawValue) ==
  IF /\ i >= caret
     /\ i <= st.newCaretPos
     /\ st.it < Len(rawValue)
     /\ Len(rawValue) > Len(oldRawValue)
  THEN st.newCaretPos + 1
  ELSE st.newCaretPos

\* The for loop of convertToMasked from index i on (i, it are 0-based as in
\* the source); st = [it, newVal, newCaretPos].
RECURSIVE maskLoop(_, _, _, _)
maskLoop(i, st, rawValue, oldRawValue) ==
  IF ~(i < Len(mask)) THEN st
  ELSE LET m == mask[i + 1] IN
    IF m.type = "object"
    THEN maskLoop(i + 1,
           [st EXCEPT
              !.newVal = Append(@, slotChar(rawValue, st.it, m)),
              !.it = itAfterPattern(rawValue, st.it, m)],
           rawValue, oldRawValue)
    ELSE maskLoop(i + 1,
           [st EXCEPT
              !.newVal = @ \o m.str,
              !.newCaretPos = caretAfterLiteral(i, st, rawValue, oldRawValue)],
           rawValue, oldRawValue)

\* convertToMasked(s), called while the field reports the selection end
\* selEnd: the masked string it returns and the caret it hands to setCaret.
convertToMasked(s, selEnd) ==
  LET currCaret == IF selEnd # 0 THEN selEnd ELSE 0
      oldRawValue == getRawValue(value)
      rawValue == getRawValue(s)
      st == maskLoop(0, [it |-> 0, newVal |-> <<>>, newCaretPos |-> currCaret],
                     rawValue, oldRawValue)
  IN  [newVal |-> st.newVal, newCaretPos |-> st.newCaretPos]

----------------------------------------------------------------------------
(* SpecMask: the mask pass applied to bounded inputs. *)

MaskTokens == {Literal("-"), d, Pattern(".")}
Placeholders == {"_", "*"}
InputChars == {"1", "2", "a", "-", "_", "*"}

PhoneMask ==
  <<Literal("("), d, d, d, Literal(")"), Literal(" "), d, d, d, Literal("-"),
    d, d, d, d>>

PhoneInputs ==
  { <<"5", "5", "5", "1", "2", "3", "4", "5", "6", "7">>,
    <<"5", "5", "5">>,
    <<>>,
    <<"5", "5", "a", "1", "2", "3", "4", "5", "6", "7">> }

InitMask ==
  /\ \/ /\ mask \in MasksOver(MaskTokens, MaxMaskLen)
        /\ val \in StringsUpTo(InputChars, MaxValLen)
     \/ /\ mask = PhoneMask
        /\ val \in PhoneInputs
  /\ placeholderChar \in Placeholders
  /\ validators = <<>>
  /\ defaultValue = <<>>
  /\ valueProp = <<>>
  /\ value = <<>>
  /\ caret = 0
  /\ selectionStart = 0
  /\ selectionEnd = 0
  /\ event = [type |-> "none", maskedVal |-> <<>>, writes |-> <<>>]
  /\ notified = <<>>
  /\ pc = "start"
  /\ rawVal = <<>>
  /\ newVal = <<>>
  /\ reVal = <<>>
  /\ newCaret = 0
  /\ cutVal = <<>>
  /\ bar = <<>>

\* newVal = convertToMasked(val)
ApplyMask ==
  /\ pc = "start"
  /\ rawVal' = getRawValue(val)
  /\ newVal' = convertToMasked(val, selectionEnd).newVal
  /\ newCaret' = convertToMasked(val, selectionEnd).newCaretPos
  /\ pc' = "masked"
  /\ UNCHANGED <<widgetVars, val, reVal, cutVal, bar>>

\* reVal = convertToMasked(newVal): the raw value is re-extracted from the
\* masked string and masked again.
ReapplyMask ==
  /\ pc = "masked"
  /\ reVal' = convertToMasked(newVal, selectionEnd).newVal
  /\ pc' = "remasked"
  /\ UNCHANGED <<widgetVars, val, rawVal, newVal, newCaret, cutVal, bar>>

\* cutVal = convertToMasked(r[0..n-1]) for the raw value r of val and the
\* number n of RegExp tokens of the mask.
MaskPrefix ==
  /\ pc = "masked"
  /\ LET n == Cardinality({i \in 1..Len(mask) : mask[i].type = "object"})
     IN  cutVal' = convertToMasked(SubSeq(rawVal, 1, IF Len(rawVal) < n
                                                      THEN Len(rawVal) ELSE n),
                                   selectionEnd).newVal
  /\ pc' = "prefixMasked"
  /\ UNCHANGED <<widgetVars, val, rawVal, newVal, reVal, newCaret, bar>>

NextMask == ApplyMask \/ ReapplyMask \/ MaskPrefix

SpecMask == InitMask /\ [][NextMask]_vars

----------------------------------------------------------------------------
(* SpecCaret: the mask pass applied while the widget holds a live value, a
   stored caret and a field selection, as in onChangeHandler. *)

CaretMaskTokens == {Literal("-"), d}
LiveChars == {"1"}
CaretInputChars == {"1", "-"}

InitCaret ==
  /\ mask \in MasksOver(CaretMaskTokens, MaxMaskLen)
  /\ val \in StringsUpTo(CaretInputChars, MaxValLen)
  /\ placeholderChar = "_"
  /\ validators = <<>>
  /\ defaultValue = <<>>
  /\ valueProp = <<>>
  /\ value \in StringsUpTo(LiveChars, MaxValLen)
  /\ caret \in 0..MaxMaskLen
  /\ selectionEnd \in 0..Len(val)
  /\ selectionStart = selectionEnd
  /\ event = [type |-> "none", maskedVal |-> <<>>, writes |-> <<>>]
  /\ notified = <<>>
  /\ pc = "start"
  /\ rawVal = <<>>
  /\ newVal = <<>>
  /\ reVal = <<>>
  /\ newCaret = 0
  /\ cutVal = <<>>
  /\ bar = <<>>

SpecCaret == InitCaret /\ [][NextMask]_vars

----------------------------------------------------------------------------
(* Spec: one InputMask instance and the events it handles. *)

MaxWidgetMaskLen == 2
MaxBarMax == 3

WidgetMasks ==
  MasksOver({Literal("-"), d}, MaxWidgetMaskLen) \cup {<<d, Literal("-"), d>>}
TypedChars == {"1", "a", "-"}
PropValues == {<<>>, <<"1">>, <<"a">>}

\* The caller's validators, ValidatorFn: (val: string) => boolean.
\* "complete" accepts a string without placeholder, "nonblank" a string
\* holding a digit.
Accepts(validator, v) ==
  CASE validator = "complete" -> \A k \in 1..Len(v) : v[k] # placeholderChar
    [] validator = "nonblank" -> \E k \in 1..Len(v) : v[k] \in Digits
    [] OTHER -> TRUE

ValidatorLists == {<<>>, <<"complete">>, <<"nonblank", "complete">>}

\* Utils.validators.isValid(validators, value)
isValid(vs, v) == \A k \in 1..Len(vs) : Accepts(vs[k], v)

Min(a, b) == IF a < b THEN a ELSE b

\* setCaretPos(pos) on a field showing text: el.setSelectionRange(p, p),
\* which the field clamps to its text.
setCaretPos(pos, text) ==
  [start |-> Min(pos, Len(text)), end |-> Min(pos, Len(text))]

\* The field once the component has re-rendered with the state (v2, c2):
\* <Input value={value}> rewrites the field's text when it differs from the
\* text shown, which leaves the selection at the end of the new text; then,
\* the field showing v2, the [caret] effect runs if the caret changed. The
\* result is the field's selection and the calls of setSelectionRange made,
\* each with its argument p and the text the field showed at the call.
afterRenderWritesFirst(text, sel, v2, c2) ==
  LET committed == IF text # v2
                   THEN [start |-> Len(v2), end |-> Len(v2)]
                   ELSE sel
  IN  IF c2 # caret
      THEN [start |-> committed.start, end |-> committed.end,
            writes |-> <<[p |-> c2, text |-> text]>>]
      ELSE [start |-> committed.start, end |-> committed.end, writes |-> <<>>]

afterRender(text, sel, v2, c2) ==
  LET committed == IF text # v2
                   THEN [start |-> Len(v2), end |-> Len(v2)]
                   ELSE sel
  IN  IF c2 # caret
      THEN [start |-> setCaretPos(c2, v2).start, end |-> setCaretPos(c2, v2).end,
            writes |-> <<[p |-> c2, text |-> v2]>>]
      ELSE [start |-> committed.start, end |-> committed.end, writes |-> <<>>]

Init ==
  /\ mask \in WidgetMasks
  /\ placeholderChar = "_"
  /\ validators \in ValidatorLists
  /\ defaultValue \in PropValues
  /\ valueProp \in PropValues
  \* useState(defaultValue || valueProp || '')
  /\ value = IF defaultValue # <<>> THEN defaultValue ELSE valueProp
  /\ caret = 0
  /\ selectionStart = 0
  /\ selectionEnd = 0
  /\ event = [type |-> "none", maskedVal |-> <<>>, writes |-> <<>>]
  /\ notified = <<>>
  /\ pc = "constructed"
  /\ val = <<>>
  /\ rawVal = <<>>
  /\ newVal = <<>>
  /\ reVal = <<>>
  /\ newCaret = 0
  /\ cutVal = <<>>
  /\ bar = <<>>

\* What the [valueProp] effect does for the prop value v:
\*   if (ref.current && valueProp) setValue(convertToMasked(valueProp));
valuePropEffect(v, selEnd) ==
  IF v # <<>>
  THEN LET r == convertToMasked(v, selEnd)
       IN  [value |-> r.newVal, caret |-> r.newCaretPos, maskedVal |-> r.newVal]
  ELSE [value |-> value, caret |-> caret, maskedVal |-> <<>>]

\* The effects of the first render: the [caret] effect calls setCaretPos(0),
\* then the [valueProp] effect masks a non-empty value prop.
Mount ==
  /\ pc = "constructed"
  /\ pc' = "mounted"
  /\ LET sel0 == setCaretPos(caret, value)
         h == valuePropEffect(valueProp, sel0.end)
         sel == afterRender(value, sel0, h.value, h.caret)
     IN  /\ value' = h.value
         /\ caret' = h.caret
         /\ event' = [type |-> "mount", maskedVal |-> h.maskedVal,
                       writes |-> <<[p |-> caret, text |-> value]>> \o sel.writes]
         /\ notified' = <<>>
         /\ selectionStart' = sel.start
         /\ selectionEnd' = sel.end
  /\ UNCHANGED <<mask, placeholderChar, validators, defaultValue, valueProp,
                 val, rawVal, newVal, reVal, newCaret, cutVal, bar>>

\* The caller passes another value prop: the [valueProp] effect runs.
SetValueProp ==
  /\ pc = "mounted"
  /\ \E v \in PropValues :
       /\ v # valueProp
       /\ valueProp' = v
       /\ LET h == valuePropEffect(v, selectionEnd)
              sel == afterRender(value,
                                 [start |-> selectionStart, end |-> selectionEnd],
                                 h.value, h.caret)
          IN  /\ value' = h.value
              /\ caret' = h.caret
              /\ event' = [type |-> "setValue", maskedVal |-> h.maskedVal,
                            writes |-> sel.writes]
              /\ notified' = <<>>
              /\ selectionStart' = sel.start
              /\ selectionEnd' = sel.end
  /\ UNCHANGED <<mask, placeholderChar, validators, defaultValue, pc,
                 val, rawVal, newVal, reVal, newCaret, cutVal, bar>>

\* onChangeHandler for the text inputVal with the selection end at selEnd
onChangeCommitsUnchecked(inputVal, selEnd) ==
  LET r == convertToMasked(inputVal, selEnd)
      maskedVal == r.newVal
  IN  [value |-> maskedVal, caret |-> r.newCaretPos, maskedVal |-> maskedVal,
       notified |-> <<[fn |-> "onChange", maskedVal |-> maskedVal]>>]

onChangeHandler(inputVal, selEnd) ==
  LET r == convertToMasked(inputVal, selEnd)
      maskedVal == r.newVal
  IN  IF isValid(validators, maskedVal)
      THEN [value |-> maskedVal, caret |-> r.newCaretPos, maskedVal |-> maskedVal,
            notified |-> <<[fn |-> "onChange", maskedVal |-> maskedVal]>>]
      ELSE [value |-> value, caret |-> r.newCaretPos, maskedVal |-> maskedVal,
            notified |-> <<>>]

\* The user's edits of the text shown, each with the text it leaves in the
\* field and the collapsed selection after it: a character typed at p, the
\* character before p removed (Backspace), the character after p removed
\* (Delete).
SubStr(s, a, b) == SubSeq(s, a, b)

Edits(text) ==
  {[text |-> SubStr(text, 1, p) \o <<c>> \o SubStr(text, p + 1, Len(text)),
    pos |-> p + 1] : p \in 0..Len(text), c \in TypedChars}
  \cup
  {[text |-> SubStr(text, 1, p - 1) \o SubStr(text, p + 1, Len(text)),
    pos |-> p - 1] : p \in 1..Len(text)}
  \cup
  {[text |-> SubStr(text, 1, p) \o SubStr(text, p + 2, Len(text)),
    pos |-> p] : p \in 0..(Len(text) - 1)}

\* A change event: the user's edit has left the text inputVal in the field
\* with the caret at pos.
Change ==
  /\ pc = "mounted"
  /\ \E edit \in Edits(value) :
       LET inputVal == edit.text
           pos == edit.pos
           h == onChangeHandler(inputVal, pos)
           sel == afterRender(inputVal, [start |-> pos, end |-> pos],
                              h.value, h.caret)
       IN  /\ value' = h.value
           /\ caret' = h.caret
           /\ event' = [type |-> "change", maskedVal |-> h.maskedVal,
                         writes |-> sel.writes]
           /\ notified' = h.notified
           /\ selectionStart' = sel.start
           /\ selectionEnd' = sel.end
  /\ UNCHANGED <<mask, placeholderChar, validators, defaultValue, valueProp,
                 pc, val, rawVal, newVal, reVal,
                 newCaret, cutVal, bar>>

\* onBlurHandler: the field's text is the live value.
onBlurNotifiesOnlyValid ==
  LET r == convertToMasked(value, selectionEnd)
  IN  [caret |-> r.newCaretPos, maskedVal |-> r.newVal,
       notified |-> IF isValid(validators, r.newVal)
                    THEN <<[fn |-> "onBlur", maskedVal |-> r.newVal]>>
                    ELSE <<>>]

onBlurHandler ==
  LET r == convertToMasked(value, selectionEnd)
  IN  [caret |-> r.newCaretPos, maskedVal |-> r.newVal,
       notified |-> <<[fn |-> "onBlur", maskedVal |-> r.newVal]>>]

Blur ==
  /\ pc = "mounted"
  /\ LET h == onBlurHandler
         sel == afterRender(value,
                            [start |-> selectionStart, end |-> selectionEnd],
                            value, h.caret)
     IN  /\ caret' = h.caret
         /\ event' = [type |-> "blur", maskedVal |-> h.maskedVal,
                       writes |-> sel.writes]
         /\ notified' = h.notified
         /\ selectionStart' = sel.start
         /\ selectionEnd' = sel.end
  /\ UNCHANGED <<mask, placeholderChar, validators, defaultValue, valueProp,
                 value, pc, val, rawVal, newVal, reVal,
                 newCaret, cutVal, bar>>

\* onClickHandler with the field's selection at selStart..selEnd:
\*   const pos = selectionStart ? selectionStart : 0;
\*   if (selectionEnd === pos) setCaret(pos);
onClickHandler(selStart, selEnd) ==
  LET pos == IF selStart # 0 THEN selStart ELSE 0
  IN  IF selEnd = pos THEN pos ELSE caret

Click ==
  /\ pc = "mounted"
  /\ \E s \in 0..Len(value) : \E e \in s..Len(value) :
       LET c2 == onClickHandler(s, e)
           sel == afterRender(value, [start |-> s, end |-> e], value, c2)
       IN  /\ caret' = c2
           /\ selectionStart' = sel.start
           /\ selectionEnd' = sel.end
           /\ event' = [type |-> "click", maskedVal |-> <<>>,
                         writes |-> sel.writes]
  /\ notified' = <<[fn |-> "onClick"]>>
  /\ UNCHANGED <<mask, placeholderChar, validators, defaultValue, valueProp,
                 value, pc, val, rawVal, newVal, reVal,
                 newCaret, cutVal, bar>>

\* The keyup listener for the left and right arrow keys:
\*   const pos = selectionEnd;
\*   if (selectionStart === selectionEnd) { if (pos) setCaret(pos); }
keyupListener(selStart, selEnd) ==
  LET pos == selEnd
  IN  IF selStart = selEnd /\ pos # 0 THEN pos ELSE caret

KeyUp ==
  /\ pc = "mounted"
  /\ \E s \in 0..Len(value) : \E e \in s..Len(value) :
       LET c2 == keyupListener(s, e)
           sel == afterRender(value, [start |-> s, end |-> e], value, c2)
       IN  /\ caret' = c2
           /\ selectionStart' = sel.start
           /\ selectionEnd' = sel.end
           /\ event' = [type |-> "keyup", maskedVal |-> <<>>,
                         writes |-> sel.writes]
  /\ notified' = <<>>
  /\ UNCHANGED <<mask, placeholderChar, validators, defaultValue, valueProp,
                 value, pc, val, rawVal, newVal, reVal,
                 newCaret, cutVal, bar>>

\* onClearHandler: setValue(''); if (onClear) onClear(e);
onClearMasksEmpty ==
  [value |-> convertToMasked(<<>>, selectionEnd).newVal,
   notified |-> <<[fn |-> "onClear"]>>]

onClearHandler ==
  [value |-> <<>>, notified |-> <<[fn |-> "onClear"]>>]

Clear ==
  /\ pc = "mounted"
  /\ LET h == onClearHandler
         sel == afterRender(value,
                            [start |-> selectionStart, end |-> selectionEnd],
                            h.value, caret)
     IN  /\ value' = h.value
         /\ notified' = h.notified
         /\ selectionStart' = sel.start
         /\ selectionEnd' = sel.end
         /\ event' = [type |-> "clear", maskedVal |-> <<>>,
                       writes |-> sel.writes]
  /\ UNCHANGED <<mask, placeholderChar, validators, defaultValue, valueProp,
                 caret, pc, val, rawVal, newVal, reVal,
                 newCaret, cutVal, bar>>

Next ==
  \/ Mount
  \/ SetValueProp
  \/ Change
  \/ Blur
  \/ Click
  \/ KeyUp
  \/ Clear

Spec == Init /\ [][Next]_vars

----------------------------------------------------------------------------
(* SpecBar: the ProgressBar rendered with bounded props, then rendered again
   with new props.  bar holds the last two renders, the newest first. *)

\* max = 100 when the prop is absent
DefaultMax == 100

\* props.max is <<>> when the prop is absent, <<n>> when it is n
BarMaxes == {<<>>} \cup {<<n>> : n \in -1..MaxBarMax}
BarValues ==
  (-1..(MaxBarMax + 2)) \cup {DefaultMax - 1, DefaultMax, DefaultMax + 1}

\* style.width as the fraction num/den it denotes and its unit:
\*   value > 0 ? `${Math.min(value, max) * 100 / max}%` : '0'
ProgressBarUnclamped(props) ==
  LET max == IF props.max = <<>> THEN DefaultMax ELSE props.max[1]
  IN  IF props.value > 0
      THEN [num |-> props.value * 100, den |-> max, unit |-> "%"]
      ELSE [num |-> 0, den |-> 1, unit |-> ""]

ProgressBar(props) ==
  LET max == IF props.max = <<>> THEN DefaultMax ELSE props.max[1]
  IN  IF props.value > 0
      THEN [num |-> Min(props.value, max) * 100, den |-> max, unit |-> "%"]
      ELSE [num |-> 0, den |-> 1, unit |-> ""]

InitBar ==
  /\ mask = <<>>
  /\ placeholderChar = "_"
  /\ validators = <<>>
  /\ defaultValue = <<>>
  /\ valueProp = <<>>
  /\ value = <<>>
  /\ caret = 0
  /\ selectionStart = 0
  /\ selectionEnd = 0
  /\ event = [type |-> "none", maskedVal |-> <<>>, writes |-> <<>>]
  /\ notified = <<>>
  /\ pc = "bar"
  /\ val = <<>>
  /\ rawVal = <<>>
  /\ newVal = <<>>
  /\ reVal = <<>>
  /\ newCaret = 0
  /\ cutVal = <<>>
  /\ \E props \in [value : BarValues, max : BarMaxes] :
       bar = <<[props |-> props, width |-> ProgressBar(props)]>>

\* the parent renders the ProgressBar again with new props
Rerender ==
  /\ pc = "bar"
  /\ \E props \in [value : BarValues, max : BarMaxes] :
       bar' = <<[props |-> props, width |-> ProgressBar(props)], bar[1]>>
  /\ UNCHANGED <<widgetVars, pc, val, rawVal, newVal, reVal, newCaret, cutVal>>

NextBar == Rerender

SpecBar == InitBar /\ [][NextBar]_vars

----------------------------------------------------------------------------
(* Vocabulary of the properties, stated on the mask itself. *)

IsLiteralAt(i) == mask[i].type = "string"
IsPatternAt(i) == mask[i].type = "object"

\* The indexes of the Pattern tokens of the mask, ascending.
RECURSIVE patternIndexesFrom(_)
patternIndexesFrom(i) ==
  IF i > Len(mask) THEN <<>>
  ELSE (IF IsPatternAt(i) THEN <<i>> ELSE <<>>) \o patternIndexesFrom(i + 1)

PatternIndexes == patternIndexesFrom(1)
PatternSlots == Len(PatternIndexes)

\* c is a literal of the mask or the placeholder
Stripped(c) ==
  \/ c = placeholderChar
  \/ \E i \in 1..Len(mask) : mask[i] = Literal(c)

\* s without its Stripped characters
RECURSIVE Kept(_)
Kept(s) ==
  IF s = <<>> THEN <<>>
  ELSE (IF Stripped(Head(s)) THEN <<>> ELSE <<Head(s)>>) \o Kept(Tail(s))

\* the k-th character of the raw value (k from 1) satisfies the k-th slot
Fits(raw, k) == match(raw[k], mask[PatternIndexes[k]])

----------------------------------------------------------------------------
(* Properties of the mask pass, checked under SpecMask. *)

\* C1: the string returned by convertToMasked has exactly Len(mask)
\* characters, every Literal index holds that literal, and every Pattern
\* index holds the placeholder or a character of the raw value that
\* satisfies the token of that index.
C1_MaskedShape ==
  pc # "start" =>
    /\ Len(newVal) = Len(mask)
    /\ \A i \in 1..Len(mask) :
         /\ IsLiteralAt(i) => <<newVal[i]>> = mask[i].str
         /\ IsPatternAt(i) =>
              \/ newVal[i] = placeholderChar
              \/ /\ \E k \in 1..Len(rawVal) : rawVal[k] = newVal[i]
                 /\ match(newVal[i], mask[i])

C1_Witness ==
  /\ pc = "masked"
  /\ mask = <<d, Literal("-"), d>>
  /\ val = <<"1", "a", "2">>
  /\ newVal = <<"1", "-", placeholderChar>>

C1_WitnessEmptyMask ==
  /\ pc = "masked"
  /\ mask = <<>>
  /\ val # <<>>
  /\ newVal = <<>>

\* C2 as claimed: masking is idempotent under re-extraction for every raw
\* value that has no more characters than the mask has Pattern slots.
C2_IdempotentAsClaimed ==
  (pc = "remasked" /\ Len(rawVal) <= PatternSlots) => reVal = newVal

\* Every character of raw that fails its slot comes after every character
\* that satisfies its slot.
FailuresTrail(raw) ==
  \A j, k \in 1..Len(raw) : (j < k /\ ~Fits(raw, j)) => ~Fits(raw, k)

\* C2 amended: masking is idempotent under re-extraction for every raw value
\* that has no more characters than the mask has Pattern slots and in which
\* no character failing its slot is followed by one satisfying its slot.
C2_Idempotent ==
  (pc = "remasked" /\ Len(rawVal) <= PatternSlots /\ FailuresTrail(rawVal))
    => reVal = newVal

C2_Witness ==
  /\ pc = "remasked"
  /\ mask = <<Literal("-"), d, d>>
  /\ rawVal = <<"1", "a">>
  /\ newVal = <<"-", "1", placeholderChar>>
  /\ reVal = newVal

PhoneCase(ph, s) ==
  pc # "start" /\ mask = PhoneMask /\ placeholderChar = ph /\ val = s

\* C3 as claimed: "55a1234567" on the phone mask gives "(551) 234-567_".
C3_ShiftLeftAsClaimed ==
  PhoneCase("_", <<"5", "5", "a", "1", "2", "3", "4", "5", "6", "7">>)
    => newVal = <<"(", "5", "5", "1", ")", " ", "2", "3", "4", "-",
                  "5", "6", "7", "_">>

\* C3 amended: "55a1234567" on the phone mask gives "(55_) 123-4567": the
\* non-digit is consumed, its slot holds the placeholder and no digit shifts.
C3_NonDigitLeavesPlaceholder ==
  PhoneCase("_", <<"5", "5", "a", "1", "2", "3", "4", "5", "6", "7">>)
    => newVal = <<"(", "5", "5", "_", ")", " ", "1", "2", "3", "-",
                  "4", "5", "6", "7">>

C3_Witness ==
  /\ PhoneCase("_", <<"5", "5", "a", "1", "2", "3", "4", "5", "6", "7">>)
  /\ newVal[4] = "_"
  /\ newVal[14] = "7"

\* C4: when the raw character aligned with the k-th Pattern slot fails that
\* slot, the slot holds the placeholder and the next Pattern slot is decided
\* by the next raw character alone: it holds that character when it fits and
\* the placeholder otherwise.
C4_NonMatchingConsumed ==
  pc # "start" =>
    \A k \in 1..PatternSlots :
      (k <= Len(rawVal) /\ ~Fits(rawVal, k)) =>
        /\ newVal[PatternIndexes[k]] = placeholderChar
        /\ k < PatternSlots =>
             newVal[PatternIndexes[k + 1]] =
               IF k + 1 <= Len(rawVal) /\ Fits(rawVal, k + 1)
               THEN rawVal[k + 1] ELSE placeholderChar

\* the rejected "a" would fit the next slot, which holds "1" instead
C4_Witness ==
  /\ pc = "masked"
  /\ mask = <<d, Literal("-"), Pattern(".")>>
  /\ rawVal = <<"a", "1">>
  /\ newVal = <<placeholderChar, "-", "1">>

\* C5: when each of the k characters of the raw value (k at most the number
\* of Pattern slots) satisfies its slot, the first k Pattern slots hold them
\* in order and every other Pattern slot holds the placeholder; "555" on the
\* phone mask gives "(555) ___-____" and "" with placeholder "*" gives
\* "(***) ***-****".
C5_InOrderFill ==
  /\ (/\ pc # "start"
      /\ Len(rawVal) <= PatternSlots
      /\ \A k \in 1..Len(rawVal) : Fits(rawVal, k))
       => \A k \in 1..PatternSlots :
            newVal[PatternIndexes[k]] =
              IF k <= Len(rawVal) THEN rawVal[k] ELSE placeholderChar
  /\ PhoneCase("_", <<"5", "5", "5">>)
       => newVal = <<"(", "5", "5", "5", ")", " ", "_", "_", "_", "-",
                     "_", "_", "_", "_">>
  /\ PhoneCase("*", <<>>)
       => newVal = <<"(", "*", "*", "*", ")", " ", "*", "*", "*", "-",
                     "*", "*", "*", "*">>

C5_Witness ==
  /\ PhoneCase("_", <<"5", "5", "5">>)
  /\ rawVal = <<"5", "5", "5">>
  /\ newVal[4] = "5"
  /\ newVal[7] = "_"

C5_WitnessOrder ==
  /\ pc = "masked"
  /\ mask = <<Pattern("."), Literal("-"), d, d>>
  /\ rawVal = <<"a", "2">>
  /\ newVal = <<"a", "-", "2", placeholderChar>>

\* C6: getRawValue returns exactly the characters of the string that are
\* neither a literal of the mask nor the placeholder, in order and with
\* duplicates kept, so its result holds no literal and no placeholder.
C6_Extraction ==
  pc # "start" =>
    /\ rawVal = Kept(val)
    /\ \A k \in 1..Len(rawVal) : ~Stripped(rawVal[k])

\* the literal and the placeholder are stripped away from the mask's indexes
C6_Witness ==
  /\ pc = "masked"
  /\ mask = <<d, Literal("-")>>
  /\ placeholderChar = "_"
  /\ val = <<"-", "2", "_">>
  /\ rawVal = <<"2">>

----------------------------------------------------------------------------
(* Properties of the widget, checked under Spec. *)

\* every validator of the list accepts v
AllAccept(v) == \A k \in 1..Len(validators) : Accepts(validators[k], v)

\* v has the shape of a masked value: Len(mask) characters, each Literal
\* index holding its literal and each Pattern index a matching character or
\* the placeholder
WellFormed(v) ==
  /\ Len(v) = Len(mask)
  /\ \A i \in 1..Len(mask) :
       /\ IsLiteralAt(i) => <<v[i]>> = mask[i].str
       /\ IsPatternAt(i) => (v[i] = placeholderChar \/ match(v[i], mask[i]))

\* C7: on a change event, when every validator accepts the masked value the
\* live value becomes that value and onChange is called once with it;
\* when some validator rejects it the live value stays as it was and no
\* callback is called.
C7_AllOrNothing ==
  [][event'.type = "change" =>
       IF AllAccept(event'.maskedVal)
       THEN /\ value' = event'.maskedVal
            /\ notified' = <<[fn |-> "onChange", maskedVal |-> event'.maskedVal]>>
       ELSE /\ value' = value
            /\ notified' = <<>>]_vars

\* a change rejected by the second validator though the first accepts it
C7_Witness ==
  /\ event.type = "change"
  /\ Len(validators) = 2
  /\ Accepts(validators[1], event.maskedVal)
  /\ ~AllAccept(event.maskedVal)
  /\ value # event.maskedVal
  /\ notified = <<>>

\* C8 as claimed: whenever an event other than clear changes the live value,
\* every validator accepts the new live value.
C8_EveryCommitValidatedAsClaimed ==
  [][(value' # value /\ event'.type # "clear") => AllAccept(value')]_vars

\* C8 amended: a live value committed by a change event is one every
\* validator accepted, while the value-prop effect (on mount and when the
\* value prop changes) commits the masked form of a non-empty value prop
\* without consulting the validators.
C8_ChangeCommitsValidated ==
  [][/\ (event'.type = "change" /\ value' # value) => AllAccept(value')
     /\ (event'.type \in {"mount", "setValue"} /\ valueProp' # <<>>)
          => value' = event'.maskedVal]_vars

C8_Witness ==
  /\ event.type = "setValue"
  /\ valueProp # <<>>
  /\ value = event.maskedVal
  /\ ~AllAccept(value)

\* C9 as claimed: in every reachable state the live value has the shape of
\* a masked value.
C9_AlwaysMaskedAsClaimed == WellFormed(value)

\* C9 amended: in every reachable state the live value is the empty string,
\* or the unmasked defaultValue it was constructed with, or (until the mount
\* effect has run) the unmasked value prop it was constructed with, or a
\* string of the shape of a masked value.
C9_LiveValueShape ==
  \/ value = <<>>
  \/ value = defaultValue
  \/ pc = "constructed" /\ value = valueProp
  \/ WellFormed(value)

C9_Witness ==
  /\ event.type = "change"
  /\ mask = <<d, Literal("-"), d>>
  /\ value = <<"1", "-", "_">>
  /\ value # defaultValue

\* C10: in every reachable state the stored caret lies in 0..Len(mask).
C10_CaretWithinMask == caret \in 0..Len(mask)

\* the number of Pattern tokens among the first i tokens of the mask
SlotOrdinal(i) == Cardinality({j \in 1..i : IsPatternAt(j)})

\* The masked form of a raw value, index by index: at a Literal index the
\* literal, at the k-th Pattern index the k-th raw character when there is
\* one and it fits, the placeholder otherwise.
Masked(raw) ==
  [i \in 1..Len(mask) |->
     IF IsLiteralAt(i) THEN mask[i].str[1]
     ELSE LET k == SlotOrdinal(i)
          IN  IF k <= Len(raw) /\ match(raw[k], mask[i])
              THEN raw[k] ELSE placeholderChar]

\* C11: after an external-value event for the value v, the empty string
\* included, the live value is the masked form of the raw value of v.
C11_ExternalValueMasked ==
  [][event'.type = "setValue" => value' = Masked(Kept(valueProp'))]_vars

\* C12: on a blur event onBlur is called once with the masked form of the
\* text in the field, whether or not the validators accept it, and the live
\* value stays as it was.
C12_BlurNotifiesMasked ==
  [][event'.type = "blur" =>
       /\ notified' = <<[fn |-> "onBlur", maskedVal |-> Masked(Kept(value))]>>
       /\ value' = value]_vars

\* a blur whose masked text differs from the live value and is rejected by
\* the validators
C12_Witness ==
  /\ event.type = "blur"
  /\ notified = <<[fn |-> "onBlur", maskedVal |-> event.maskedVal]>>
  /\ ~AllAccept(event.maskedVal)
  /\ value # event.maskedVal
  /\ Len(mask) > 0

\* C13: a clear event sets the live value to the empty string, whatever the
\* mask and the validators, leaves the stored caret as it was and calls
\* onClear once.
C13_ClearEmpties ==
  [][event'.type = "clear" =>
       /\ value' = <<>>
       /\ caret' = caret
       /\ notified' = <<[fn |-> "onClear"]>>]_vars

\* a clear with a mask whose masked empty value is not empty, validators
\* that reject the empty string and a caret away from 0
C13_Witness ==
  /\ event.type = "clear"
  /\ value = <<>>
  /\ Masked(<<>>) # <<>>
  /\ ~AllAccept(<<>>)
  /\ caret > 0
  /\ notified = <<[fn |-> "onClear"]>>

\* C17: a click or the release of an arrow key leaves the live value as it
\* was; with a collapsed selection at pos (0 included) the stored caret
\* becomes pos, with a selection that is not collapsed it stays as it was.
C17_ClickKeyResync ==
  [][event'.type \in {"click", "keyup"} =>
       /\ value' = value
       /\ IF selectionStart' = selectionEnd'
          THEN caret' = selectionEnd'
          ELSE caret' = caret]_vars

\* C18: when some validator rejects the masked value of a change event, the
\* stored caret after the event is the stored caret before it.
C18_RejectedEditKeepsCaret ==
  [][(event'.type = "change" /\ ~AllAccept(event'.maskedVal))
       => caret' = caret]_vars

\* C15: after a change event that commits its masked value, setSelectionRange
\* has been called once with the stored caret, also when the stored caret is
\* what it was before the event.
C15_CaretWrittenBack ==
  [][(event'.type = "change" /\ AllAccept(event'.maskedVal))
       => event'.writes = <<[p |-> caret', text |-> value']>>]_vars

\* C16: every call of setSelectionRange made while a change event or an
\* external-value event is handled carries the stored caret of the new
\* state and is made when the field shows the live value of the new state,
\* never the text it showed before the commit.
C16_WriteAfterCommit ==
  [][event'.type \in {"change", "setValue"} =>
       \A k \in 1..Len(event'.writes) :
         /\ event'.writes[k].text = value'
         /\ event'.writes[k].p = caret']_vars

\* a committed change whose typed text differs from the committed value and
\* whose caret has been written back
C16_Witness ==
  /\ event.type = "change"
  /\ value = event.maskedVal
  /\ mask = <<d, Literal("-"), d>>
  /\ value = <<"1", "-", "_">>
  /\ event.writes = <<[p |-> caret, text |-> value]>>
  /\ notified # <<>>

\* The caret of the correction rule after the mask indexes from i on
\* (0-based), c being the running caret: one more for each Literal index
\* inside [stored caret, c] met while raw characters remain unconsumed,
\* when the raw value of val is longer than the raw value of the live value.
RECURSIVE CaretRule(_, _)
CaretRule(i, c) ==
  IF i >= Len(mask) THEN c
  ELSE CaretRule(i + 1,
         IF /\ IsLiteralAt(i + 1)
            /\ caret <= i /\ i <= c
            /\ SlotOrdinal(i) < Len(Kept(val))
            /\ Len(Kept(val)) > Len(Kept(value))
         THEN c + 1 ELSE c)

\* C14: the caret a mask pass hands to setCaret starts at the selection end
\* of the field and grows by one for each Literal index inside the window
\* [stored caret, running caret] met while raw characters remain, when the
\* raw value has grown; when the raw value has not grown it is the
\* selection end of the field.
C14_CaretCorrection ==
  pc # "start" =>
    /\ newCaret = CaretRule(0, selectionEnd)
    /\ Len(Kept(val)) <= Len(Kept(value)) => newCaret = selectionEnd

\* a pass over a grown raw value whose caret was moved over a literal, and
\* whose mask has a literal before the stored caret that did not move it
C14_Witness ==
  /\ pc = "masked"
  /\ mask = <<Literal("-"), d, Literal("-")>>
  /\ val = <<"1", "1">>
  /\ value = <<"1">>
  /\ caret = 1
  /\ selectionEnd = 2
  /\ newCaret = 3

\* a pass over a raw value that has not grown: the caret is the captured one
C14_WitnessNotGrown ==
  /\ pc = "masked"
  /\ mask = <<d, Literal("-"), d>>
  /\ val = <<"-">>
  /\ value = <<"1">>
  /\ caret = 0
  /\ selectionEnd = 0
  /\ newCaret = 0

\* C19: the masked string of a text is the masked string of the first n
\* characters of its raw value, n being the number of Pattern slots of the
\* mask; the pass yields a string for every text.
C19_ExcessDropped ==
  pc = "prefixMasked" =>
    /\ cutVal = newVal
    /\ newVal = Masked(SubSeq(rawVal, 1, Min(Len(rawVal), PatternSlots)))
    /\ Len(newVal) = Len(mask)

\* a raw value longer than the number of slots whose excess character
\* would fit a slot
C19_Witness ==
  /\ pc = "prefixMasked"
  /\ mask = <<d, Literal("-")>>
  /\ rawVal = <<"1", "2">>
  /\ newVal = <<"1", "-">>
  /\ cutVal = newVal

\* max of a render: the prop, 100 when it is absent
BarMax(r) == IF r.props.max = <<>> THEN DefaultMax ELSE r.props.max[1]

\* the width of render r is at most / at least the fraction n/1 percent
WidthAtMost(r, n) == r.width.num <= n * r.width.den
WidthAtLeast(r, n) == r.width.num >= n * r.width.den

\* C20: with max > 0 the indicator width of every render is between 0 and
\* 100 percent, 0 for a value <= 0, 100 percent for a value >= max, and of
\* two renders with the same max the one with the larger value is not
\* narrower.
C20_WidthClamped ==
  /\ \A k \in 1..Len(bar) :
       BarMax(bar[k]) > 0 =>
         /\ bar[k].width.den > 0
         /\ WidthAtLeast(bar[k], 0) /\ WidthAtMost(bar[k], 100)
         /\ bar[k].props.value <= 0 => bar[k].width.num = 0
         /\ bar[k].props.value >= BarMax(bar[k])
              => WidthAtLeast(bar[k], 100) /\ bar[k].width.unit = "%"
  /\ (/\ Len(bar) = 2
      /\ BarMax(bar[1]) > 0
      /\ BarMax(bar[2]) = BarMax(bar[1])
      /\ bar[2].props.value <= bar[1].props.value)
       => bar[2].width.num * bar[1].width.den
            <= bar[1].width.num * bar[2].width.den

\* a render with a value above max after a render with a value strictly
\* inside 0..max, the same max in both
C20_Witness ==
  /\ Len(bar) = 2
  /\ bar[1].props = [value |-> MaxBarMax + 1, max |-> <<MaxBarMax>>]
  /\ bar[2].props = [value |-> MaxBarMax - 1, max |-> <<MaxBarMax>>]
  /\ bar[1].width = [num |-> MaxBarMax * 100, den |-> MaxBarMax, unit |-> "%"]
  /\ bar[2].width.num < bar[1].width.num

\* a render with the default max and a value above it
C20_WitnessDefaultMax ==
  /\ Len(bar) = 2
  /\ bar[1].props = [value |-> DefaultMax + 1, max |-> <<>>]
  /\ bar[1].width = [num |-> DefaultMax * 100, den |-> DefaultMax, unit |-> "%"]

====
